---- MODULE Spec2Model ----
(***************************************************************************)
(* mysql-modelify: the Entity Definition (Model) CRUD methods and the      *)
(* Route Generator handlers of src/src/route-generator.js, run against an  *)
(* execution adapter that completes the statements in flight one at a      *)
(* time, in any order.                                                     *)
(*                                                                         *)
(* A handler runs from one await to the next as one step: the step that    *)
(* completes a statement also runs the continuation that awaited it, up to *)
(* the statements that continuation issues.  Statements issued inside a    *)
(* forEach(async ...) callback are not awaited by the method that issued   *)
(* them: they stay in flight while the method goes on and returns.         *)
(*                                                                         *)
(* The Row Mapper (rawSQLToModel, parseRelationCollection) is also         *)
(* modelled on its own, on flattened rows whose relation columns hold      *)
(* comma-joined strings; the CRUD methods use it on the rows of the store, *)
(* where it maps every declared relation to its related rows.              *)
(***************************************************************************)
EXTENDS Integers, Sequences, FiniteSets, TLC

VARIABLES
  model,       \* the Model instance (its fields, as a record)
  table,       \* the entity's table: a set of rows [id, f]
  nextId,      \* the table's AUTO_INCREMENT counter
  links,       \* the rows of the relation link tables: [rel, senior, row]
  req,         \* req[r]: the HTTP request r, [kind, id, data]
  pc,          \* pc[r]: where the handler of request r is suspended
  pending,     \* the statements handed to the execution adapter, in flight
  resp,        \* resp[r]: the responses sent for request r, in order
  issued,      \* issued[r]: every statement request r handed to the adapter
  thrown,      \* thrown[r]: the error the CRUD method of request r rejected with
  stmtFailed,  \* stmtFailed[r]: a statement of request r failed in the adapter
  failures,    \* adapter failures (connection loss) so far
  target,      \* target[r]: the object the handler's lookup returned (const target)
  insertId,    \* insertId[r]: the id the store gave the row request r inserted
  flatRow,     \* the flattened join row handed to the Row Mapper
  mapped       \* what the Row Mapper made of flatRow

vars == <<model, table, nextId, links, req, pc, pending, resp, issued, thrown,
          stmtFailed, failures, target, insertId, flatRow, mapped>>
dbVars == <<table, nextId, links>>
mapVars == <<flatRow, mapped>>

----------------------------------------------------------------------------
(* Bounds *)

NReq == 2          \* requests served in one run
MaxId == 1         \* ids a request may name in its path
MaxFailures == 1   \* statements the adapter may fail for lack of a connection
MaxLen == 5        \* characters in a column value of a flattened row

Requests == 1..NReq
Ids == 1..MaxId

Range(s) == {s[i] : i \in DOMAIN s}

----------------------------------------------------------------------------
(* Column metadata, as DESCRIBE returns it *)

Col(f, null, default, extra) ==
  [Field |-> f, Null |-> null, Default |-> default, Extra |-> extra]

IdCol == Col("id", "NO", "NULL", "auto_increment")

\* users(id, name NOT NULL, created_at DEFAULT CURRENT_TIMESTAMP)
UsersCols ==
  <<IdCol, Col("name", "NO", "NULL", ""),
    Col("created_at", "NO", "CURRENT_TIMESTAMP", "")>>

\* a table whose created_at has no default
StrictCols ==
  <<IdCol, Col("name", "NO", "NULL", ""), Col("created_at", "NO", "NULL", "")>>

\* a table without created_at, all of whose columns may be omitted
NotesCols ==
  <<IdCol, Col("name", "YES", "NULL", ""),
    Col("updated_at", "NO", "CURRENT_TIMESTAMP", "")>>

ColumnLists == {UsersCols, StrictCols, NotesCols}

\* mysqlService.columnIsRequired: non-nullable, no default (an auto-increment
\* key is filled by the store)
columnIsRequired(c) ==
  c.Null = "NO" /\ c.Default = "NULL" /\ c.Extra # "auto_increment"

getColumnName(c) == c.Field

MapSeq(s, Op(_)) == [i \in DOMAIN s |-> Op(s[i])]

\* _.without(array, ...values)
Without(s, values) == SelectSeq(s, LAMBDA x : x \notin values)

----------------------------------------------------------------------------
(* The Model instance *)

TableName == "users"

\* pluralize.singular, on the one table name of the model
Singular(name) == IF name = "users" THEN "user" ELSE name

\* Model.constructor with created_at left in updateableFields
ConstructorKeepsCreatedAt(name, fields) ==
  [name |-> Singular(name),
   tableName |-> name,
   fields |-> fields,
   plainFields |-> MapSeq(fields, getColumnName),
   hasCreatedAtTimestamp |-> "created_at" \in Range(MapSeq(fields, getColumnName)),
   hasUpdatedAtTimestamp |-> "updated_at" \in Range(MapSeq(fields, getColumnName)),
   updateableFields |-> Without(MapSeq(fields, getColumnName), {"id"}),
   requiredFields |-> MapSeq(SelectSeq(fields, columnIsRequired), getColumnName),
   relations |-> << >>,
   attributes |-> << >>]

\* Model.constructor
Constructor(name, fields) ==
  [name |-> Singular(name),
   tableName |-> name,
   fields |-> fields,
   plainFields |-> MapSeq(fields, getColumnName),
   hasCreatedAtTimestamp |-> "created_at" \in Range(MapSeq(fields, getColumnName)),
   hasUpdatedAtTimestamp |-> "updated_at" \in Range(MapSeq(fields, getColumnName)),
   updateableFields |-> Without(MapSeq(fields, getColumnName), {"id", "created_at"}),
   requiredFields |-> MapSeq(SelectSeq(fields, columnIsRequired), getColumnName),
   relations |-> << >>,
   attributes |-> << >>]

\* The link tables that may be declared on the entity
RelationNames == {"roles"}
AttributeNames == {"phones"}

\* new Relationship(relationName, tableData, seniorModel, childrenModel)
Relationship(relationName) ==
  [tableName |-> relationName, seniorKey |-> "id_user"]

\* new Attribute(attributeName, tableData, seniorModel)
Attribute(attributeName) ==
  [tableName |-> attributeName, seniorKey |-> "id_user"]

----------------------------------------------------------------------------
(* Request payloads: JSON objects, as functions from keys to values.  An   *)
(* own column holds a string, a relation key a list of link rows (taken    *)
(* here as a set: the rows of a payload are distinct).                     *)

\* Link rows a payload may carry: "bad" stands for a row the Relationship
\* Descriptor rejects (a column outside the link table's writable columns,
\* or a required column missing).
LinkRows == {"r1", "r2", "r3"}
BadRow == "bad"

Payloads ==
  { << >>,
    "name" :> "Bea",
    ("id" :> "7") @@ ("name" :> "Bea") @@ ("created_at" :> "t1"),
    "roles" :> {},
    "roles" :> {"r1"},
    "roles" :> {"r3"},
    "roles" :> {BadRow},
    ("name" :> "Ann") @@ ("roles" :> {"r1", "r2"}),
    ("name" :> "Bea") @@ ("bogus" :> {"r1"}) }

\* delete data.id
DeleteId(data) == [k \in DOMAIN data \ {"id"} |-> data[k]]

\* Model.getValidFields: _.pick(data, this.updateableFields)
getValidFields(data) ==
  [k \in DOMAIN data \cap Range(model.updateableFields) |-> data[k]]

\* Model.getRelationsToUpdate: the keys of data that name a declared relation
\* (each with its rows, data[relationName])
getRelationsToUpdate(data) ==
  {k \in DOMAIN data : k \in DOMAIN model.relations}

\* Relationship.validateDataForCreate: column whitelist and required columns
validateDataForCreate(relationData) == \A row \in relationData : row \in LinkRows

\* The required fields checked against the whole payload
missingFromPayload(data) ==
  SelectSeq(model.requiredFields, LAMBDA f : f \notin DOMAIN data)

\* Model.create, lines 242-244
missingRequiredFields(data) ==
  SelectSeq(model.requiredFields, LAMBDA f : f \notin DOMAIN getValidFields(data))

----------------------------------------------------------------------------
(* The store behind the execution adapter *)

NonIdColumns == Range(model.plainFields) \ {"id"}

\* The value the store gives a column an INSERT leaves out
DefaultOf(c) ==
  LET col == CHOOSE x \in Range(model.fields) : x.Field = c
  IN  IF col.Default = "NULL" THEN "NULL" ELSE "now"

\* INSERT INTO <table> (keys of fields) VALUES (...): the new row
InsertedRow(fields) ==
  [id |-> nextId,
   f |-> [c \in NonIdColumns |-> IF c \in DOMAIN fields THEN fields[c] ELSE DefaultOf(c)]]

\* UPDATE <table> SET k = data[k], ... WHERE id = <id>
UpdatedTable(id, data) ==
  {IF t.id = id
     THEN [t EXCEPT !.f = [c \in DOMAIN t.f |-> IF c \in DOMAIN data THEN data[c] ELSE t.f[c]]]
     ELSE t : t \in table}

\* A SET clause naming a key that is no column of the table is bad SQL
BadSql(data) == ~(DOMAIN data \subseteq Range(model.plainFields))

\* The link rows of relation n whose senior foreign key is id
RelatedRows(n, id) == {l.row : l \in {x \in links : x.rel = n /\ x.senior = id}}

NoObj == [id |-> 0, f |-> << >>, rels |-> << >>]

\* The Row Mapper has mapped nothing yet
NotMapped == << >>

\* Model.rawSQLToModel on the flattened join row of t: own columns copied,
\* every declared relation mapped to the collection of its related rows
rawSQLToModel(t) ==
  [id |-> t.id, f |-> t.f,
   rels |-> [n \in DOMAIN model.relations |-> RelatedRows(n, t.id)]]

\* Model.get(id) on the store as it is: result[0], NoObj for undefined
get(id) ==
  IF \E t \in table : t.id = id
    THEN rawSQLToModel(CHOOSE t \in table : t.id = id)
    ELSE NoObj

\* getLast with ORDER BY id ASC
getFirst ==
  IF table = {} THEN 0
  ELSE CHOOSE i \in {t.id : t \in table} : \A t \in table : t.id >= i

\* Model.getLast on the store as it is: the id of data[0], 0 for undefined
getLast ==
  IF table = {} THEN 0
  ELSE CHOOSE i \in {t.id : t \in table} : \A t \in table : t.id <= i

----------------------------------------------------------------------------
(* The Row Mapper on a flattened join row.  A string is the sequence of    *)
(* its characters ("" is << >>); a column name is held as its              *)
(* dot-separated path, <<"name">> or <<"roles", "city">>; an object is a   *)
(* function from keys to values, an array a sequence.  Column names have   *)
(* at most two levels, so a relation's columns hold strings or NULL.       *)

Chars == {"a", ","}
Null == <<"null">>

\* The column values of a flattened row: strings up to MaxLen, and NULL
Strings == UNION {[1..n -> Chars] : n \in 0..MaxLen}
Values == Strings \cup {Null}

\* !value, on a string or NULL
Falsy(value) == value = Null \/ value = << >>

\* String.prototype.split(sep): the pieces between the separators, in order
Split(str, sep) ==
  LET at == {i \in 1..Len(str) : str[i] = sep}
      cut(j) == IF j = 0 THEN 0
                ELSE IF j > Cardinality(at) THEN Len(str) + 1
                ELSE CHOOSE i \in at : Cardinality({x \in at : x < i}) = j - 1
  IN  [j \in 1..(Cardinality(at) + 1) |-> SubSeq(str, cut(j - 1) + 1, cut(j) - 1)]

\* parseRelationCollection without the split: one row object of whole values
parseRelationCollectionUnsplit(relationship) ==
  IF DOMAIN relationship = {} THEN << >> ELSE <<relationship>>

\* Model.parseRelationCollection, on an object of strings ([] is << >>):
\* result[index][key] is set for every index below the number of pieces of
\* relationship[key], to that piece, or to null for an empty piece
parseRelationCollection(relationship) ==
  LET parsedValue(key) ==
        Split(IF Falsy(relationship[key]) THEN << >> ELSE relationship[key], ",")
      length == IF DOMAIN relationship = {} THEN 0
                ELSE CHOOSE n \in {Len(parsedValue(key)) : key \in DOMAIN relationship} :
                       \A key \in DOMAIN relationship : Len(parsedValue(key)) <= n
  IN  [index \in 1..length |->
         [key \in {k \in DOMAIN relationship : index <= Len(parsedValue(k))} |->
            IF parsedValue(key)[index] = << >> THEN Null ELSE parsedValue(key)[index]]]

\* The reduce of rawSQLToModel with no column left out
partialModelKeepsEmpty(rawOutput) ==
  [first \in {key[1] : key \in DOMAIN rawOutput} |->
     IF <<first>> \in DOMAIN rawOutput
       THEN rawOutput[<<first>>]
       ELSE [second \in {key[2] : key \in {k \in DOMAIN rawOutput : k[1] = first}} |->
               rawOutput[<<first, second>>]]]

\* Model.rawSQLToModel, lines 296-307: the reduce over the columns; a dotted
\* column with a falsy value is left out, the others are _.set at their path
partialModel(rawOutput) ==
  LET kept == {key \in DOMAIN rawOutput : ~(Len(key) > 1 /\ Falsy(rawOutput[key]))}
  IN  [first \in {key[1] : key \in kept} |->
         IF <<first>> \in kept
           THEN rawOutput[<<first>>]
           ELSE [second \in {key[2] : key \in {k \in kept : k[1] = first}} |->
                   rawOutput[<<first, second>>]]]

\* Model.rawSQLToModel on a flattened row
rawSQLToModelFlat(rawOutput) ==
  LET partial == partialModel(rawOutput)
      tables == {model.relations[n].tableName : n \in DOMAIN model.relations}
  IN  [k \in DOMAIN partial \cup tables |->
         IF k \in tables
           THEN parseRelationCollection(IF k \in DOMAIN partial THEN partial[k] ELSE << >>)
           ELSE partial[k]]

----------------------------------------------------------------------------
(* Statements handed to mysqlService.runQuery *)

Stmt(r, kind, id, data, rel, rows) ==
  [req |-> r, kind |-> kind, id |-> id, data |-> data, rel |-> rel, rows |-> rows]

SelectStmt(r, id) == Stmt(r, "SELECT", id, << >>, "", {})
SelectLastStmt(r) == Stmt(r, "SELECT_LAST", 0, << >>, "", {})
InsertStmt(r, fields) == Stmt(r, "INSERT", 0, fields, "", {})
UpdateStmt(r, id, data) == Stmt(r, "UPDATE", id, data, "", {})
DeleteStmt(r, id) == Stmt(r, "DELETE", id, << >>, "", {})
\* QueryBuilder.deleteExistingRelation(id, relation); rows: the newData that
\* overrideExistingRelationEntries inserts once the DELETE has completed
DeleteRelStmt(r, id, rel, rows) == Stmt(r, "DELETE_REL", id, << >>, rel, rows)
\* QueryBuilder.createRelationEntries: one INSERT per row, signed with id
InsertRelStmt(r, id, rel, row) == Stmt(r, "INSERT_REL", id, << >>, rel, {row})

WriteKinds == {"INSERT", "UPDATE", "DELETE", "DELETE_REL", "INSERT_REL"}
\* Statements issued inside forEach(async ...): no caller awaits them
Unawaited == {"DELETE_REL", "INSERT_REL"}

Writes(S) == {s \in S : s.kind \in WriteKinds}

----------------------------------------------------------------------------
(* Responses and errors *)

NoReq == [kind |-> "none", id |-> 0, data |-> << >>]
NoError == [type |-> "none", fields |-> << >>]
Error(type, fields) == [type |-> type, fields |-> fields]

Body(kind, obj) == [kind |-> kind, obj |-> obj]

\* res.status(status).send(body) / res.end(body) / res.sendStatus(status)
Respond(r, status, body) ==
  resp' = [resp EXCEPT ![r] = Append(@, [status |-> status, body |-> body])]

\* The handler has answered: nothing of it is left to run
Finish(r) == pc' = [pc EXCEPT ![r] = "done"]

\* A catch that answers 400
CatchBadRequest(r, err) == Respond(r, 400, Body("message", NoObj)) /\ Finish(r)

\* catch (err) { res.status(500).send(err.message) }
Catch(r, err) == Respond(r, 500, Body("message", NoObj)) /\ Finish(r)

\* The CRUD method of request r rejects with err, having completed the
\* statements in ended; the handler's catch answers
Reject(r, ended, err) ==
  /\ thrown' = [thrown EXCEPT ![r] = err]
  /\ pending' = pending \ ended
  /\ Catch(r, err)
  /\ UNCHANGED issued

\* The handler of r goes on to its next await at, having completed the
\* statements in ended and issued those in S
Await(r, ended, at, S) ==
  /\ pending' = (pending \ ended) \cup S
  /\ issued' = [issued EXCEPT ![r] = @ \cup S]
  /\ pc' = [pc EXCEPT ![r] = at]
  /\ UNCHANGED <<resp, thrown>>

\* The handler of r answers, having completed the statements in ended
Answer(r, ended, status, body) ==
  /\ pending' = pending \ ended
  /\ Respond(r, status, body)
  /\ Finish(r)
  /\ UNCHANGED <<issued, thrown>>

----------------------------------------------------------------------------
(* Startup *)

\* A table that already holds user 1, "Ann", linked to roles r1 and r2
SeededRow ==
  [id |-> 1, f |-> [c \in NonIdColumns |-> IF c = "name" THEN "Ann" ELSE "now"]]
SeededRoles == {"r1", "r2"}
SeededLinks == {[rel |-> "roles", senior |-> 1, row |-> row] : row \in SeededRoles}

\* The server starts on an empty table or on one that holds a row
Init ==
  /\ model \in {Constructor(TableName, cols) : cols \in ColumnLists}
  /\ \/ table = {} /\ nextId = 1 /\ links = {}
     \/ table = {SeededRow} /\ nextId = 2 /\ links = SeededLinks
  /\ req = [r \in Requests |-> NoReq]
  /\ pc = [r \in Requests |-> "idle"]
  /\ pending = {}
  /\ resp = [r \in Requests |-> << >>]
  /\ issued = [r \in Requests |-> {}]
  /\ thrown = [r \in Requests |-> NoError]
  /\ stmtFailed = [r \in Requests |-> FALSE]
  /\ failures = 0
  /\ target = [r \in Requests |-> NoObj]
  /\ insertId = [r \in Requests |-> 0]
  /\ flatRow = << >>
  /\ mapped = NotMapped

\* Relations and attributes are declared before the server takes requests
Starting == \A r \in Requests : pc[r] = "idle"

\* Model.addRelationship
addRelationship(relationName) ==
  /\ Starting
  /\ model' = [model EXCEPT !.relations = (relationName :> Relationship(relationName)) @@ @]
  /\ UNCHANGED <<mapVars, target, insertId, dbVars, req, pc, pending, resp, issued,
                 thrown, stmtFailed, failures>>

\* addAttribute storing the descriptor in relations
addAttributeAsRelation(attributeName) ==
  /\ Starting
  /\ model' = [model EXCEPT !.relations = (attributeName :> Attribute(attributeName)) @@ @]
  /\ UNCHANGED <<mapVars, target, insertId, dbVars, req, pc, pending, resp, issued,
                 thrown, stmtFailed, failures>>

\* Model.addAttribute
addAttribute(attributeName) ==
  /\ Starting
  /\ model' = [model EXCEPT !.attributes = (attributeName :> Attribute(attributeName)) @@ @]
  /\ UNCHANGED <<mapVars, target, insertId, dbVars, req, pc, pending, resp, issued,
                 thrown, stmtFailed, failures>>

----------------------------------------------------------------------------
(* The Row Mapper is handed a flattened row *)

\* The flattened rows of SELECT ... GROUP_CONCAT(...) AS `roles.city`, ...
RawRows ==
  {(<<"id">> :> <<"a">>) @@ (<<"name">> :> name)
     @@ (<<"roles", "city">> :> city) @@ (<<"roles", "zip">> :> zip) :
       name \in {<< >>, <<"a">>, Null}, city \in Values, zip \in Values}

\* result.map(this.rawSQLToModel), on one row
MapRow(raw) ==
  /\ mapped = NotMapped
  /\ flatRow' = raw
  /\ mapped' = rawSQLToModelFlat(raw)
  /\ UNCHANGED <<model, dbVars, req, pc, pending, resp, issued, thrown, stmtFailed,
                 failures, target, insertId>>

----------------------------------------------------------------------------
(* Requests arrive.  Requests are numbered in the order they arrive. *)

Arrives(r, kind, id, data) ==
  /\ pc[r] = "idle"
  /\ IF r = 1 THEN TRUE ELSE pc[r - 1] # "idle"
  /\ req' = [req EXCEPT ![r] = [kind |-> kind, id |-> id, data |-> data]]

\* The request arrives once every earlier one has been answered
InTurn(r) == \A q \in Requests : q < r => pc[q] = "done"

----------------------------------------------------------------------------
(* GET /users/:id *)

GetRequest(r, id) ==
  /\ Arrives(r, "GET", id, << >>)
  /\ Await(r, {}, "get", {SelectStmt(r, id)})
  /\ UNCHANGED <<mapVars, target, insertId, model, dbVars, stmtFailed, failures>>

\* generateGetRoutes, lines 36-43
GetAnswered(r) ==
  \E s \in pending :
    /\ s.req = r /\ pc[r] = "get" /\ s.kind = "SELECT"
    /\ IF get(s.id) = NoObj
         THEN Answer(s.req, {s}, 404, Body("not_found", NoObj))
         ELSE Answer(s.req, {s}, 200, Body("object", get(s.id)))
    /\ UNCHANGED <<mapVars, target, insertId, model, dbVars, req, stmtFailed, failures>>

----------------------------------------------------------------------------
(* PUT /users/:id and Model.update *)

PutRequest(r, id, data) ==
  /\ Arrives(r, "PUT", id, data)
  /\ Await(r, {}, "put_target", {SelectStmt(r, id)})
  /\ UNCHANGED <<mapVars, target, insertId, model, dbVars, stmtFailed, failures>>

\* Model.update issuing every relation's DELETE and INSERTs at once
updateRelationsAtOnce(r, ended, id, data) ==
  Await(r, ended, "update_get",
        {DeleteRelStmt(r, id, n, {}) : n \in getRelationsToUpdate(data)}
          \cup {InsertRelStmt(r, id, n, row) :
                  <<n, row>> \in {x \in getRelationsToUpdate(data) \X LinkRows :
                                    x[2] \in data[x[1]]}}
          \cup {SelectStmt(r, id)})

\* Model.update, lines 215-223: every relation's DELETE is issued in a
\* forEach(async ...) callback nobody awaits, then get(id) is issued
updateRelations(r, ended, id, data) ==
  Await(r, ended, "update_get",
        {DeleteRelStmt(r, id, n, data[n]) : n \in getRelationsToUpdate(data)}
          \cup {SelectStmt(r, id)})

\* Model.update, lines 200-213, with data.id deleted
updateFields(r, ended, id, data) ==
  IF \E n \in getRelationsToUpdate(data) : ~validateDataForCreate(data[n])
    THEN Reject(r, ended, Error("RelationValidationFailure", << >>))
    ELSE IF DOMAIN getValidFields(data) # {}
      THEN Await(r, ended, "update_query", {UpdateStmt(r, id, data)})
      ELSE updateRelations(r, ended, id, data)

\* Model.update
update(r, ended, id, data) == updateFields(r, ended, id, DeleteId(data))

\* generatePutRoutes without the check of target
PutTargetUnchecked(r) ==
  \E s \in pending :
    /\ s.req = r /\ pc[r] = "put_target" /\ s.kind = "SELECT"
    /\ target' = [target EXCEPT ![r] = get(s.id)]
    /\ update(s.req, {s}, s.id, req[s.req].data)
    /\ UNCHANGED <<mapVars, insertId, model, dbVars, req, stmtFailed, failures>>

\* generatePutRoutes, lines 55-61
PutTarget(r) ==
  \E s \in pending :
    /\ s.req = r /\ pc[r] = "put_target" /\ s.kind = "SELECT"
    /\ IF get(s.id) = NoObj
         THEN Answer(s.req, {s}, 404, Body("status_text", NoObj))
         ELSE update(s.req, {s}, s.id, req[s.req].data)
    /\ target' = [target EXCEPT ![r] = get(s.id)]
    /\ UNCHANGED <<mapVars, insertId, model, dbVars, req, stmtFailed, failures>>

\* Model.update, line 212: the UPDATE has run
UpdateQueryDone(r) ==
  \E s \in pending :
    /\ s.req = r /\ pc[r] = "update_query" /\ s.kind = "UPDATE"
    /\ IF BadSql(s.data)
         THEN /\ Reject(s.req, {s}, Error("ExecutionFailure", << >>))
              /\ stmtFailed' = [stmtFailed EXCEPT ![s.req] = TRUE]
              /\ UNCHANGED table
         ELSE /\ table' = UpdatedTable(s.id, s.data)
              /\ updateRelations(s.req, {s}, s.id, s.data)
              /\ UNCHANGED stmtFailed
    /\ UNCHANGED <<mapVars, target, insertId, model, nextId, links, req, failures>>

\* Model.update, line 223, and generatePutRoutes, lines 63-64
UpdateGetDone(r) ==
  \E s \in pending :
    /\ s.req = r /\ pc[r] = "update_get" /\ s.kind = "SELECT"
    /\ IF get(s.id) = NoObj
         THEN Answer(s.req, {s}, 200, Body("empty", NoObj))
         ELSE Answer(s.req, {s}, 200, Body("object", get(s.id)))
    /\ UNCHANGED <<mapVars, target, insertId, model, dbVars, req, stmtFailed, failures>>

\* overrideExistingRelationEntries with a DELETE that removes no row
OverrideKeepsOldRows(r) ==
  \E s \in pending :
    /\ s.req = r /\ s.kind = "DELETE_REL"
    /\ pending' = (pending \ {s}) \cup {InsertRelStmt(s.req, s.id, s.rel, row) : row \in s.rows}
    /\ issued' = [issued EXCEPT ![s.req] =
                    @ \cup {InsertRelStmt(s.req, s.id, s.rel, row) : row \in s.rows}]
    /\ UNCHANGED <<mapVars, target, insertId, model, dbVars, req, pc, resp,
                   thrown, stmtFailed, failures>>

\* Model.overrideExistingRelationEntries: the DELETE has run, and
\* assignRelationData issues one INSERT per new row, awaited by nobody
OverrideDeleteDone(r) ==
  \E s \in pending :
    /\ s.req = r /\ s.kind = "DELETE_REL"
    /\ links' = {l \in links : ~(l.rel = s.rel /\ l.senior = s.id)}
    /\ pending' = (pending \ {s}) \cup {InsertRelStmt(s.req, s.id, s.rel, row) : row \in s.rows}
    /\ issued' = [issued EXCEPT ![s.req] =
                    @ \cup {InsertRelStmt(s.req, s.id, s.rel, row) : row \in s.rows}]
    /\ UNCHANGED <<mapVars, target, insertId, model, table, nextId, req, pc, resp,
                   thrown, stmtFailed, failures>>

\* Model.assignRelationData, line 292: one link-row INSERT has run
AssignInsertDone(r) ==
  \E s \in pending :
    /\ s.req = r /\ s.kind = "INSERT_REL"
    /\ links' = links \cup {[rel |-> s.rel, senior |-> s.id, row |-> row] : row \in s.rows}
    /\ pending' = pending \ {s}
    /\ UNCHANGED <<mapVars, target, insertId, model, table, nextId, req, pc, resp,
                   issued, thrown, stmtFailed, failures>>

----------------------------------------------------------------------------
(* POST /users and Model.create *)

\* Model.create without the validation of relation payloads
createUnvalidated(r, data) ==
  IF Len(missingRequiredFields(data)) > 0
    THEN Reject(r, {}, Error("InvalidModelInput", missingRequiredFields(data)))
    ELSE Await(r, {}, "create_insert", {InsertStmt(r, getValidFields(data))})

\* Model.create, lines 240-263: relation payloads are validated, then the
\* required fields are checked, then the INSERT is issued
create(r, data) ==
  IF \E n \in getRelationsToUpdate(data) : ~validateDataForCreate(data[n])
    THEN Reject(r, {}, Error("RelationValidationFailure", << >>))
    ELSE IF Len(missingRequiredFields(data)) > 0
      THEN Reject(r, {}, Error("InvalidModelInput", missingRequiredFields(data)))
      ELSE Await(r, {}, "create_insert", {InsertStmt(r, getValidFields(data))})

\* generatePostRoutes, line 76
PostRequest(r, data) ==
  /\ Arrives(r, "POST", 0, data)
  /\ create(r, data)
  /\ UNCHANGED <<mapVars, target, insertId, model, dbVars, stmtFailed, failures>>

\* Model.create, lines 263-264: the INSERT has run, getLast is issued
CreateInsertDone(r) ==
  \E s \in pending :
    /\ s.req = r /\ pc[r] = "create_insert" /\ s.kind = "INSERT"
    /\ table' = table \cup {InsertedRow(s.data)}
    /\ nextId' = nextId + 1
    /\ insertId' = [insertId EXCEPT ![r] = nextId]
    /\ Await(s.req, {s}, "create_last", {SelectLastStmt(s.req)})
    /\ UNCHANGED <<mapVars, target, model, links, req, stmtFailed, failures>>

\* Model.create, lines 266-278, with the relation rows left as
\* getRelationsToUpdate(data, null) signed them
createRelationsUnsigned(r, ended, result, data) ==
  IF result = 0
    THEN Reject(r, ended, Error("TypeError", << >>))
    ELSE Await(r, ended, "create_get",
               {InsertRelStmt(r, 0, n, row) :
                  <<n, row>> \in {x \in getRelationsToUpdate(data) \X LinkRows :
                                    x[2] \in data[x[1]]}}
                 \cup {SelectStmt(r, result)})

\* Model.create, lines 266-278, with result the row getLast returned: the
\* relation rows are signed with result.id and their INSERTs issued in a
\* forEach(async ...) callback nobody awaits, then get(result.id) is issued
createRelations(r, ended, result, data) ==
  IF result = 0
    THEN Reject(r, ended, Error("TypeError", << >>))
    ELSE Await(r, ended, "create_get",
               {InsertRelStmt(r, result, n, row) :
                  <<n, row>> \in {x \in getRelationsToUpdate(data) \X LinkRows :
                                    x[2] \in data[x[1]]}}
                 \cup {SelectStmt(r, result)})

\* Model.getLast has run
CreateLastDone(r) ==
  \E s \in pending :
    /\ s.req = r /\ pc[r] = "create_last" /\ s.kind = "SELECT_LAST"
    /\ createRelations(s.req, {s}, getLast, req[s.req].data)
    /\ UNCHANGED <<mapVars, target, insertId, model, dbVars, req, stmtFailed, failures>>

\* Model.create, line 278, and generatePostRoutes, lines 78-79
CreateGetDone(r) ==
  \E s \in pending :
    /\ s.req = r /\ pc[r] = "create_get" /\ s.kind = "SELECT"
    /\ IF get(s.id) = NoObj
         THEN Answer(s.req, {s}, 200, Body("empty", NoObj))
         ELSE Answer(s.req, {s}, 200, Body("object", get(s.id)))
    /\ UNCHANGED <<mapVars, target, insertId, model, dbVars, req, stmtFailed, failures>>

----------------------------------------------------------------------------
(* DELETE /users/:id and Model.delete *)

DeleteRequest(r, id) ==
  /\ Arrives(r, "DELETE", id, << >>)
  /\ Await(r, {}, "delete_target", {SelectStmt(r, id)})
  /\ UNCHANGED <<mapVars, target, insertId, model, dbVars, stmtFailed, failures>>

\* Model.delete, lines 229-233: the one statement it issues
delete(r, ended, id) == Await(r, ended, "delete_query", {DeleteStmt(r, id)})

\* generateDeleteRoutes, lines 91-97
DeleteTarget(r) ==
  \E s \in pending :
    /\ s.req = r /\ pc[r] = "delete_target" /\ s.kind = "SELECT"
    /\ IF get(s.id) = NoObj
         THEN Answer(s.req, {s}, 404, Body("status_text", NoObj))
         ELSE delete(s.req, {s}, s.id)
    /\ target' = [target EXCEPT ![r] = get(s.id)]
    /\ UNCHANGED <<mapVars, insertId, model, dbVars, req, stmtFailed, failures>>

\* DELETE FROM <table> WHERE id = <id>: the rows it leaves
DeletedTable(id) == {t \in table : t.id # id}

\* A DELETE that cascades to the link rows of the entity
DeletedLinksCascade(id) == {l \in links : l.senior # id}

\* The link rows a DELETE on the entity's table leaves
DeletedLinks(id) == links

\* Model.delete, lines 229-237, and generateDeleteRoutes, lines 99-100
DeleteQueryDone(r) ==
  \E s \in pending :
    /\ s.req = r /\ pc[r] = "delete_query" /\ s.kind = "DELETE"
    /\ table' = DeletedTable(s.id)
    /\ links' = DeletedLinks(s.id)
    /\ Answer(s.req, {s}, 200, Body("success", NoObj))
    /\ UNCHANGED <<mapVars, target, insertId, model, nextId, req, stmtFailed, failures>>

----------------------------------------------------------------------------
(* The execution adapter fails a statement (connection loss) *)

\* An awaited statement rejects the method that awaits it, and the handler's
\* catch answers; the rejection of a statement issued in forEach(async ...)
\* reaches no caller
StatementFails(r) ==
  \E s \in pending :
    /\ s.req = r
    /\ failures < MaxFailures
    /\ failures' = failures + 1
    /\ stmtFailed' = [stmtFailed EXCEPT ![r] = TRUE]
    /\ IF s.kind \in Unawaited
         THEN /\ pending' = pending \ {s}
              /\ UNCHANGED <<pc, resp, issued, thrown>>
         ELSE Reject(r, {s}, Error("ExecutionFailure", << >>))
    /\ UNCHANGED <<mapVars, target, insertId, model, dbVars, req>>

----------------------------------------------------------------------------
(* Specifications *)

Declares ==
  \/ \E n \in RelationNames : addRelationship(n)
  \/ \E n \in AttributeNames : addAttribute(n)

Completes ==
  \E r \in Requests :
    \/ GetAnswered(r)
    \/ PutTarget(r)
    \/ UpdateQueryDone(r)
    \/ UpdateGetDone(r)
    \/ OverrideDeleteDone(r)
    \/ AssignInsertDone(r)
    \/ CreateInsertDone(r)
    \/ CreateLastDone(r)
    \/ CreateGetDone(r)
    \/ DeleteTarget(r)
    \/ DeleteQueryDone(r)

\* Requests overlap, and the adapter may fail
Next ==
  \/ Declares
  \/ \E r \in Requests, id \in Ids : GetRequest(r, id)
  \/ \E r \in Requests, id \in Ids, data \in Payloads : PutRequest(r, id, data)
  \/ \E r \in Requests, data \in Payloads : PostRequest(r, data)
  \/ \E r \in Requests, id \in Ids : DeleteRequest(r, id)
  \/ Completes
  \/ \E r \in Requests : StatementFails(r)

Spec == Init /\ [][Next]_vars

\* One request at a time, and the adapter does not fail
SeqNext ==
  \/ Declares
  \/ \E r \in Requests, id \in Ids : InTurn(r) /\ GetRequest(r, id)
  \/ \E r \in Requests, id \in Ids, data \in Payloads : InTurn(r) /\ PutRequest(r, id, data)
  \/ \E r \in Requests, data \in Payloads : InTurn(r) /\ PostRequest(r, data)
  \/ \E r \in Requests, id \in Ids : InTurn(r) /\ DeleteRequest(r, id)
  \/ Completes

SeqSpec == Init /\ [][SeqNext]_vars

\* The Row Mapper alone: relations are declared, then one row is mapped
MapperNext ==
  \/ \E n \in RelationNames : mapped = NotMapped /\ addRelationship(n)
  \/ mapped = NotMapped /\ \E raw \in RawRows : MapRow(raw)

MapperSpec == Init /\ [][MapperNext]_vars

----------------------------------------------------------------------------
(* Properties *)

Answered(r) == Len(resp[r]) > 0
Status(r) == resp[r][1].status
Returned(r) == resp[r][1].body

\* The keys of a payload that are neither a column nor a declared relation
UnknownKeys(data) ==
  {k \in DOMAIN data : k \notin Range(model.plainFields) /\ k \notin DOMAIN model.relations}

HasInvalidRelation(data) ==
  \E n \in DOMAIN data \cap DOMAIN model.relations : ~validateDataForCreate(data[n])

\* C1 (as claimed): with one request at a time, after update(id, {R: L}) has
\* returned, a following get(id) returns for R exactly the rows of L.
C1_GetAfterUpdateShowsNewRows ==
  \A r \in Requests :
    (/\ r + 1 \in Requests
     /\ req[r].kind = "PUT" /\ getRelationsToUpdate(req[r].data) # {}
     /\ Answered(r) /\ Status(r) = 200
     /\ req[r + 1].kind = "GET" /\ req[r + 1].id = req[r].id
     /\ Answered(r + 1))
    => /\ Status(r + 1) = 200
       /\ \A n \in getRelationsToUpdate(req[r].data) :
            Returned(r + 1).obj.rels[n] = req[r].data[n]

\* C2 (as claimed): a create whose payload lacks a required field in its
\* updateable subset fails with InvalidModelInput carrying exactly the
\* required fields absent from the payload, and issues no write.
C2_MissingFromPayloadReported ==
  \A r \in Requests :
    (req[r].kind = "POST" /\ Len(missingRequiredFields(req[r].data)) > 0)
    => /\ thrown[r].type = "InvalidModelInput"
       /\ Range(thrown[r].fields) = Range(model.requiredFields) \ DOMAIN req[r].data
       /\ Writes(issued[r]) = {}

\* C2 (amended): a create whose relation payloads all pass validation and
\* whose updateable-field subset lacks a required field fails with
\* InvalidModelInput carrying exactly the required fields absent from that
\* updateable-field subset; it issues no write and is answered at once.
C2_MissingRequiredReported ==
  \A r \in Requests :
    (/\ req[r].kind = "POST"
     /\ ~HasInvalidRelation(req[r].data)
     /\ Range(model.requiredFields) \ (DOMAIN req[r].data \cap Range(model.updateableFields)) # {})
    => /\ thrown[r].type = "InvalidModelInput"
       /\ Range(thrown[r].fields)
            = Range(model.requiredFields) \ (DOMAIN req[r].data \cap Range(model.updateableFields))
       /\ Len(thrown[r].fields) = Cardinality(Range(thrown[r].fields))
       /\ issued[r] = {}
       /\ pc[r] = "done"

C2_Witness ==
  \E r \in Requests :
    /\ req[r].kind = "POST" /\ thrown[r].type = "InvalidModelInput"
    /\ "created_at" \in DOMAIN req[r].data
    /\ "created_at" \in Range(thrown[r].fields)
    /\ table # {}

\* C3: a create or update whose payload carries a relation payload that fails
\* validation issues no write statement and is not answered 200.
C3_InvalidRelationNoWrite ==
  \A r \in Requests :
    (req[r].kind \in {"POST", "PUT"} /\ HasInvalidRelation(req[r].data))
    => /\ Writes(issued[r]) = {}
       /\ Answered(r) => Status(r) # 200
       /\ thrown[r].type \in {"none", "RelationValidationFailure", "ExecutionFailure"}

C3_Witness ==
  \E r, q \in Requests :
    /\ req[r].kind = "POST" /\ thrown[r].type = "RelationValidationFailure"
    /\ req[q].kind = "PUT" /\ thrown[q].type = "RelationValidationFailure"
    /\ table # {}

\* C4: the step in which the DELETE of delete(id) runs leaves every link row
\* in place, removes the row id of the entity's table, and answers success;
\* that DELETE is the only write statement the request issues.
C4_DeleteDoesNotCascade ==
  [][\A r \in Requests :
       (req[r].kind = "DELETE" /\ pc[r] = "delete_query" /\ pc'[r] = "done")
       => /\ links' = links
          /\ Writes(issued'[r]) = {DeleteStmt(r, req[r].id)}
          /\ \/ stmtFailed'[r]
             \/ /\ table' = {t \in table : t.id # req[r].id}
                /\ resp'[r] = <<[status |-> 200, body |-> Body("success", NoObj)]>>]_vars

C4_Witness ==
  \E r \in Requests :
    /\ req[r].kind = "DELETE" /\ Answered(r) /\ Status(r) = 200
    /\ \E l \in links : l.senior = req[r].id

\* C5: for an entity without relations and one request at a time: the object
\* a POST returns carries the payload's field values and is the object a
\* following GET by its id returns; the object a PUT returns has the id of
\* the path and the payload's field values, and is the object a following
\* GET by that id returns; after a DELETE answered {success: true} a following
\* GET by that id is answered 404.
C5_EndToEnd ==
  DOMAIN model.relations = {} =>
    \A r \in Requests :
      (Answered(r) /\ Status(r) = 200) =>
        /\ req[r].kind = "POST" =>
             /\ Returned(r).kind = "object"
             /\ \A k \in DOMAIN getValidFields(req[r].data) :
                  Returned(r).obj.f[k] = req[r].data[k]
        /\ req[r].kind = "PUT" =>
             /\ Returned(r).kind = "object"
             /\ Returned(r).obj.id = req[r].id
             /\ \A k \in DOMAIN getValidFields(req[r].data) :
                  Returned(r).obj.f[k] = req[r].data[k]
        /\ req[r].kind = "DELETE" => Returned(r).kind = "success"
        /\ (r + 1 \in Requests /\ req[r + 1].kind = "GET" /\ Answered(r + 1)) =>
             /\ (req[r].kind = "POST" /\ req[r + 1].id = Returned(r).obj.id)
                  => resp[r + 1] = resp[r]
             /\ (req[r].kind = "PUT" /\ req[r + 1].id = req[r].id)
                  => resp[r + 1] = resp[r]
             /\ (req[r].kind = "DELETE" /\ req[r + 1].id = req[r].id)
                  => resp[r + 1] = <<[status |-> 404, body |-> Body("not_found", NoObj)]>>

C5_Witness ==
  \E r \in Requests :
    /\ DOMAIN model.relations = {}
    /\ r + 1 \in Requests
    /\ req[r].kind = "PUT" /\ Answered(r) /\ Status(r) = 200
    /\ Returned(r).obj.f["name"] = "Bea"
    /\ req[r + 1].kind = "GET" /\ Answered(r + 1) /\ Status(r + 1) = 200

\* C6 (as claimed): a create or update whose payload has a key naming a
\* relation that is not declared issues no write and is not answered 200.
C6_UnknownRelationRejected ==
  \A r \in Requests :
    (req[r].kind \in {"POST", "PUT"} /\ UnknownKeys(req[r].data) # {})
    => /\ Writes(issued[r]) = {}
       /\ Answered(r) => Status(r) # 200

\* C7 (as claimed): a request one of whose statements failed in the execution
\* adapter is answered 500, never 200.
C7_StatementFailureAnswered500 ==
  \A r \in Requests :
    (stmtFailed[r] /\ Answered(r)) => Status(r) = 500

\* C8: the step that completes the lookup of a PUT, DELETE or GET by id with
\* no row answers 404 (GET with the not-found object) and ends the request,
\* which has issued no statement but that lookup.
C8_MissingTargetNotFound ==
  [][\A r \in Requests :
       (/\ pc[r] \in {"put_target", "delete_target", "get"}
        /\ pc'[r] # pc[r]
        /\ get(req[r].id) = NoObj
        /\ ~stmtFailed'[r])
       => /\ pc'[r] = "done"
          /\ issued'[r] = {SelectStmt(r, req[r].id)}
          /\ resp'[r] =
               <<[status |-> 404,
                  body |-> Body(IF req[r].kind = "GET" THEN "not_found" ELSE "status_text",
                                NoObj)]>>]_vars

C8_Witness ==
  \E r, q \in Requests :
    /\ req[r].kind = "PUT" /\ req[r].data # << >> /\ Answered(r) /\ Status(r) = 404
    /\ req[q].kind = "DELETE" /\ Answered(q) /\ Status(q) = 404

\* C9: a request whose create or update threw a validation error (missing
\* required fields, invalid relation payload) has been answered exactly
\* once, with status 500 and the error message.
C9_ValidationErrorAnswered500 ==
  \A r \in Requests :
    thrown[r].type \in {"InvalidModelInput", "RelationValidationFailure"}
    => /\ req[r].kind \in {"POST", "PUT"}
       /\ resp[r] = <<[status |-> 500, body |-> Body("message", NoObj)]>>

C9_Witness ==
  \E r, q \in Requests :
    /\ req[r].kind = "POST" /\ thrown[r].type = "InvalidModelInput"
    /\ req[q].kind = "PUT" /\ thrown[q].type = "RelationValidationFailure"

\* C10: in every state updateableFields holds exactly the column names other
\* than id and created_at, each once.
C10_UpdateableFields ==
  /\ Range(model.updateableFields)
       = {c.Field : c \in Range(model.fields)} \ {"id", "created_at"}
  /\ Len(model.updateableFields) = Cardinality(Range(model.updateableFields))

C10_Witness ==
  /\ model.hasCreatedAtTimestamp
  /\ \E r \in Requests :
       /\ req[r].kind = "PUT" /\ "created_at" \in DOMAIN req[r].data
       /\ Answered(r) /\ Status(r) = 200

----------------------------------------------------------------------------
(* Properties of the Row Mapper *)

\* The relation tables the Model has declared
DeclaredTables == {model.relations[n].tableName : n \in DOMAIN model.relations}

\* The columns of table T in the flattened row
ColumnsOf(T) == {key[2] : key \in {k \in DOMAIN flatRow : Len(k) = 2 /\ k[1] = T}}

\* str is a string of n non-empty pieces joined by commas
Joined(str, n) ==
  /\ str # Null /\ str # << >>
  /\ str[1] # "," /\ str[Len(str)] # ","
  /\ \A i \in 1..(Len(str) - 1) : ~(str[i] = "," /\ str[i + 1] = ",")
  /\ Cardinality({i \in 1..Len(str) : str[i] = ","}) = n - 1

\* The pieces joined by commas, as GROUP_CONCAT joins them
RECURSIVE Join(_)
Join(pieces) ==
  IF Len(pieces) = 0 THEN << >>
  ELSE IF Len(pieces) = 1 THEN pieces[1]
  ELSE pieces[1] \o <<",">> \o Join(Tail(pieces))

\* C11: when every column of a declared relation T holds n non-empty pieces
\* joined by commas, the mapped object holds under T exactly n row objects,
\* each with every column of T, the i-th holding the i-th piece of each
\* column; the undotted columns are copied unchanged.
C11_JoinedColumnsUnzipped ==
  mapped # NotMapped =>
    /\ \A key \in DOMAIN flatRow : Len(key) = 1 => mapped[key[1]] = flatRow[key]
    /\ \A T \in DeclaredTables, n \in 1..MaxLen :
         (ColumnsOf(T) # {} /\ \A c \in ColumnsOf(T) : Joined(flatRow[<<T, c>>], n))
         => /\ Len(mapped[T]) = n
            /\ \A i \in 1..n : DOMAIN mapped[T][i] = ColumnsOf(T)
            /\ \A c \in ColumnsOf(T) :
                 /\ \A i \in 1..n : mapped[T][i][c] # Null /\ "," \notin Range(mapped[T][i][c])
                 /\ Join([i \in 1..n |-> mapped[T][i][c]]) = flatRow[<<T, c>>]

C11_Witness ==
  /\ mapped # NotMapped
  /\ "roles" \in DeclaredTables
  /\ flatRow[<<"name">>] = << >>
  /\ flatRow[<<"roles", "city">>] = <<"a", ",", "a", "a">>
  /\ flatRow[<<"roles", "zip">>] = <<"a", "a", ",", "a">>
  /\ Len(mapped["roles"]) = 2
  /\ mapped["roles"][2] = [city |-> <<"a", "a">>, zip |-> <<"a">>]

\* C12: when every column of a declared relation T is an empty string or
\* NULL, the mapped object holds under T the empty sequence; and every
\* declared relation is a key of the mapped object, holding a sequence.
C12_EmptyRelationElided ==
  mapped # NotMapped =>
    \A T \in DeclaredTables :
      /\ T \in DOMAIN mapped
      /\ DOMAIN mapped[T] = 1..Cardinality(DOMAIN mapped[T])
      /\ (\A c \in ColumnsOf(T) : Falsy(flatRow[<<T, c>>])) => mapped[T] = << >>

C12_Witness ==
  /\ mapped # NotMapped
  /\ "roles" \in DeclaredTables
  /\ flatRow[<<"roles", "city">>] = << >>
  /\ flatRow[<<"roles", "zip">>] = Null
  /\ mapped["roles"] = << >>

----------------------------------------------------------------------------
(* Properties of overlapping requests *)

\* C13: the step in which the getLast of a create runs, when no other INSERT
\* on the table has run since the create's own INSERT and the inserted row
\* is still there, obtains the row this create inserted: create goes on to
\* get(id) with that row's id.
C13_GetLastReturnsOwnRow ==
  [][\A r \in Requests :
       (/\ pc[r] = "create_last" /\ pc'[r] # "create_last"
        /\ ~stmtFailed'[r]
        /\ nextId = insertId[r] + 1
        /\ \E t \in table : t.id = insertId[r])
       => /\ getLast = insertId[r]
          /\ pc'[r] = "create_get"
          /\ SelectStmt(r, insertId[r]) \in issued'[r]]_vars

\* Two creates overlap, the INSERT of q runs between the INSERT of r and its
\* getLast: r stamps its link rows with the id of q's row and returns it
C13_Witness ==
  \E r, q \in Requests :
    /\ req[r].kind = "POST" /\ req[q].kind = "POST"
    /\ insertId[r] # 0 /\ insertId[q] = insertId[r] + 1
    /\ Answered(r) /\ Status(r) = 200
    /\ Returned(r).obj.id = insertId[q]
    /\ \E row \in LinkRows : InsertRelStmt(r, insertId[q], "roles", row) \in issued[r]

\* C14: a GET of the entity that a PUT with a payload for relation n is
\* updating, no other request writing, is never answered with a mixture of
\* old and new link rows: what it shows for n is the rows the PUT found
\* before its update, or rows of the payload only.
C14_ReaderSeesOldOrNew ==
  \A r, q \in Requests :
    (/\ req[r].kind = "PUT" /\ target[r] # NoObj
     /\ req[q].kind = "GET" /\ req[q].id = req[r].id
     /\ Answered(q) /\ Status(q) = 200
     /\ \A p \in Requests \ {r} : Writes(issued[p]) = {})
    => \A n \in getRelationsToUpdate(req[r].data) :
         \/ Returned(q).obj.rels[n] = target[r].rels[n]
         \/ Returned(q).obj.rels[n] \subseteq req[r].data[n]

\* The GET runs after the DELETE of the old rows and before the INSERT of the
\* new ones: it shows no row of the relation
C14_Witness ==
  \E r, q \in Requests :
    /\ req[r].kind = "PUT" /\ target[r] # NoObj
    /\ "roles" \in getRelationsToUpdate(req[r].data)
    /\ target[r].rels["roles"] # {} /\ req[r].data["roles"] # {}
    /\ req[q].kind = "GET" /\ req[q].id = req[r].id
    /\ Answered(q) /\ Status(q) = 200
    /\ Returned(q).obj.rels["roles"] = {}

\* The fields of the Model instance that the constructor sets for good
FixedFields ==
  {"name", "tableName", "fields", "plainFields", "hasCreatedAtTimestamp",
   "hasUpdatedAtTimestamp", "updateableFields", "requiredFields"}

\* A step of a request: of its handler, of get, getLast, create, update or
\* delete, or of a statement of theirs
RequestStep ==
  <<dbVars, req, pc, pending, resp, issued, thrown, stmtFailed, failures, target,
    insertId>>' #
  <<dbVars, req, pc, pending, resp, issued, thrown, stmtFailed, failures, target,
    insertId>>

\* C15: every step of a request, under any interleaving, leaves the Model
\* instance as it is; a step that changes the instance changes relations or
\* attributes only, by the one entry under the name given to addRelationship
\* or addAttribute, and leaves every other entry and field unchanged.
C15_ModelInstanceFrame ==
  [][/\ RequestStep => model' = model
     /\ \A f \in FixedFields : model'[f] = model[f]
     /\ model' # model =>
          \/ \E n \in RelationNames :
               /\ DOMAIN model'.relations = DOMAIN model.relations \cup {n}
               /\ model'.relations[n].tableName = n
               /\ \A k \in DOMAIN model.relations \ {n} :
                    model'.relations[k] = model.relations[k]
               /\ model'.attributes = model.attributes
          \/ \E n \in AttributeNames :
               /\ DOMAIN model'.attributes = DOMAIN model.attributes \cup {n}
               /\ model'.attributes[n].tableName = n
               /\ \A k \in DOMAIN model.attributes \ {n} :
                    model'.attributes[k] = model.attributes[k]
               /\ model'.relations = model.relations]_vars

C15_Witness ==
  /\ DOMAIN model.relations = {"roles"}
  /\ DOMAIN model.attributes = {"phones"}
  /\ \E r, q \in Requests :
       /\ req[r].kind = "POST" /\ Answered(r) /\ Status(r) = 200
       /\ req[q].kind = "PUT" /\ Answered(q) /\ Status(q) = 200
       /\ Writes(issued[q]) # {}

----------------------------------------------------------------------------
(* Properties of the order of statements *)

\* C16 (as claimed): in a create, one request at a time, no link-row INSERT
\* is still in flight once the final get(id) has been issued, and the entity
\* the create returns holds for every relation of the payload exactly the
\* rows supplied.
C16_CreateReturnsSuppliedRows ==
  \A r \in Requests :
    req[r].kind = "POST" =>
      /\ pc[r] = "create_get" =>
           ~\E s \in pending : s.req = r /\ s.kind = "INSERT_REL"
      /\ (Answered(r) /\ Status(r) = 200 /\ Returned(r).kind = "object") =>
           \A n \in getRelationsToUpdate(req[r].data) :
             Returned(r).obj.rels[n] = req[r].data[n]

----------------------------------------------------------------------------
(* Properties of the statements handed to the Statement Builder *)

\* C18 (as claimed): an update issues the UPDATE exactly when its payload has
\* an updateable field, and the field map of every UPDATE holds keys of
\* updateableFields only; so no update changes the id or the created_at of
\* a row.
C18_UpdateSetsUpdateableOnly ==
  \A r \in Requests :
    req[r].kind = "PUT" =>
      /\ \A s \in issued[r] :
           s.kind = "UPDATE" =>
             /\ DOMAIN getValidFields(req[r].data) # {}
             /\ DOMAIN s.data \subseteq Range(model.updateableFields)
      /\ (pc[r] \in {"update_get", "done"} /\ target[r] # NoObj
            /\ thrown[r].type # "RelationValidationFailure"
            /\ DOMAIN getValidFields(req[r].data) # {})
           => \E s \in issued[r] : s.kind = "UPDATE"
      /\ \A t \in table :
           (t.id = req[r].id /\ "created_at" \in DOMAIN t.f /\ target[r] # NoObj)
           => t.f["created_at"] = target[r].f["created_at"]

----------------------------------------------------------------------------
(* Properties of the Row Mapper on ragged columns *)

\* C20 (as claimed): when the columns of a declared relation T hold strings,
\* of whatever numbers of pieces, the mapped object holds under T as many row
\* objects as the longest column has pieces, and the i-th row object has
\* every column of T, holding the column's i-th piece, or null when the
\* column has no i-th piece or an empty one.
C20_RaggedColumnsPadded ==
  mapped # NotMapped =>
    \A T \in DeclaredTables :
      (ColumnsOf(T) # {} /\ \A c \in ColumnsOf(T) : ~Falsy(flatRow[<<T, c>>]))
      => LET pieces(c) == Split(flatRow[<<T, c>>], ",")
             longest == CHOOSE n \in {Len(pieces(c)) : c \in ColumnsOf(T)} :
                          \A c \in ColumnsOf(T) : Len(pieces(c)) <= n
         IN  /\ Len(mapped[T]) = longest
             /\ \A i \in 1..longest, c \in ColumnsOf(T) :
                  /\ c \in DOMAIN mapped[T][i]
                  /\ mapped[T][i][c] =
                       IF i <= Len(pieces(c)) /\ pieces(c)[i] # << >>
                         THEN pieces(c)[i] ELSE Null

====
